---- MODULE Spec2Model ----
(***************************************************************************)
(* The monorepo variant of the two services: the User Directory           *)
(* (apps/user-service) and the Order Ledger (apps/order-service), with    *)
(* the lookup call the Ledger makes to the Directory when an order is     *)
(* created.                                                                *)
(*                                                                         *)
(* Strings that the code takes apart or puts together (user ids, request  *)
(* paths, generated order ids) are sequences of one-character strings, so *)
(* that building a path and routing it are computed, not assumed.  JSON   *)
(* values carry their JavaScript type in the field t.                     *)
(***************************************************************************)
EXTENDS Integers, Sequences, FiniteSets, TLC

VARIABLES
    users,      \* the Directory's user array (user.controller.ts, users)
    orders,     \* the Ledger's order array (order.controller.ts, orders)
    pending,    \* the createOrder requests awaiting their lookup, oldest first
    lastRes,    \* the response most recently sent to an outside client
    plainPending,   \* plain variant: the getOrder requests awaiting their lookup
    plainRes        \* plain variant: how the getOrder handled last ended

vars == <<users, orders, pending, lastRes>>
plainVars == <<plainPending, plainRes>>
allVars == <<vars, plainVars>>

------------------------------------------------------------------------------
(* Bounds *)

\* createOrder requests that may be in flight at once.
MaxReq == 2
\* Orders the list may come to hold (stored plus in flight).
MaxOrders == 2
\* Longest message of an error passed to errorHandler.
MaxLen == 3
\* Largest magnitude of a number thrown as an error.
MaxNum == 25

------------------------------------------------------------------------------
(* JavaScript values *)

Undefined == [t |-> "undefined"]
Null == [t |-> "null"]
Str(s) == [t |-> "string", v |-> s]
Num(n) == [t |-> "number", v |-> n]
Obj(r) == [t |-> "object", v |-> r]
Arr(q) == [t |-> "array", v |-> q]

\* o.f for a plain object o held as a record: undefined when f is absent.
Get(o, f) == IF f \in DOMAIN o THEN o[f] ELSE Undefined

\* v.f for any value v that is not null or undefined.
Prop(v, f) == IF v.t = "object" THEN Get(v.v, f) ELSE Undefined

\* JavaScript truthiness, as `!user` and `a || b` use it.
Truthy(v) ==
    CASE v.t = "undefined" -> FALSE
      [] v.t = "null" -> FALSE
      [] v.t = "string" -> v.v # <<>>
      [] v.t = "number" -> v.v # 0
      [] OTHER -> TRUE

\* a || b
OrElse(a, b) == IF Truthy(a) THEN a ELSE b

\* The text a template literal `${v}` puts for v.
TemplateString(v) ==
    CASE v.t = "undefined" -> <<"u", "n", "d", "e", "f", "i", "n", "e", "d">>
      [] v.t = "null" -> <<"n", "u", "l", "l">>
      [] OTHER -> v.v

Min(a, b) == IF a < b THEN a ELSE b

\* s.substring(a, b): the characters at 0-based positions a .. b-1.
substring(s, a, b) == SubSeq(s, a + 1, Min(b, Len(s)))

------------------------------------------------------------------------------
(* packages/shared *)

\* The values Math.random() may give, each as the base-36 digits after the
\* point of its toString(36): none for 0, "i" for 0.5.
RandomDraws == {<<>>, <<"i">>}

\* x.toString(36) for a draw x of Math.random().
toString36(d) == IF d = <<>> THEN <<"0">> ELSE <<"0", ".">> \o d

generateId(d) == substring(toString36(d), 2, 15)

------------------------------------------------------------------------------
(* apps/user-service *)

SeedUsers ==
    << [id |-> <<"1">>, name |-> "John Doe", email |-> "john@example.com"],
       [id |-> <<"2">>, name |-> "Jane Smith", email |-> "jane@example.com"] >>

\* res.json(body) after an optional res.status(s).
Response(s, body) == [kind |-> "response", status |-> s, data |-> body]

\* getUsers sending res.json(users), the array without the envelope.
getUsers_Unwrapped(us) == Response(200, Arr(us))

\* res.json({ success: true, data: users })
getUsers(us) == Response(200, Obj([success |-> TRUE, data |-> Arr(us)]))

\* users.find(u => u.id === id): the first match, or undefined.
find(us, id) ==
    IF \E i \in 1..Len(us) : us[i].id = id
    THEN Obj(us[CHOOSE i \in 1..Len(us) :
                    /\ us[i].id = id
                    /\ \A j \in 1..(i - 1) : us[j].id # id])
    ELSE Undefined

\* getUserByIdHandler answering an unknown id with 200 and an empty payload.
getUserByIdHandler_EmptyOk(us, id) ==
    LET user == find(us, id)
    IN  IF ~Truthy(user)
        THEN Response(200, Obj([success |-> FALSE, error |-> "User not found"]))
        ELSE Response(200, Obj([success |-> TRUE, data |-> user]))

getUserByIdHandler(us, id) ==
    LET user == find(us, id)
    IN  IF ~Truthy(user)
        THEN Response(404, Obj([success |-> FALSE, error |-> "User not found"]))
        ELSE Response(200, Obj([success |-> TRUE, data |-> user]))

\* The mount point of app.use('/users', userRouter).
UsersMount == <<"/", "u", "s", "e", "r", "s">>

HasSlash(s) == \E i \in 1..Len(s) : s[i] = "/"

\* Express routing of GET path: the mount point is stripped, then the
\* router's '/' and '/:id' are tried in order; matching is not strict, so
\* one trailing slash is ignored.
Route(path) ==
    LET n == Len(UsersMount)
        mounted == /\ Len(path) >= n
                   /\ SubSeq(path, 1, n) = UsersMount
                   /\ (Len(path) = n \/ path[n + 1] = "/")
        rest == SubSeq(path, n + 1, Len(path))
        seg == IF Len(rest) > 1 /\ rest[Len(rest)] = "/"
               THEN SubSeq(rest, 2, Len(rest) - 1)
               ELSE SubSeq(rest, 2, Len(rest))
    IN  IF ~mounted THEN [handler |-> "none"]
        ELSE IF Len(rest) <= 1 THEN [handler |-> "getUsers"]
        ELSE IF seg # <<>> /\ ~HasSlash(seg)
             THEN [handler |-> "getUserById", id |-> seg]
        ELSE [handler |-> "none"]

\* The Directory's answer to GET path.
Directory(us, path) ==
    LET r == Route(path)
    IN  CASE r.handler = "getUsers" -> getUsers(us)
          [] r.handler = "getUserById" -> getUserByIdHandler(us, r.id)
          [] OTHER -> Response(404, Str(<<"C", "a", "n", "n", "o", "t", " ", "G", "E", "T">>))

------------------------------------------------------------------------------
(* apps/order-service: the lookup client *)

\* `/users/${userId}`
LookupPath(userId) == UsersMount \o <<"/">> \o TemplateString(userId)

\* What can come back for a lookup instead of the Directory's own answer:
\* a network error, the client's timeout, a server-error response.
NetworkError == [kind |-> "network"]
TimeoutError == [kind |-> "timeout"]
ServerError ==
    Response(500, Obj([success |-> FALSE, error |-> "Internal Server Error"]))
Failures == {NetworkError, TimeoutError, ServerError}

\* axios's default validateStatus: the promise resolves for 2xx only.
Resolves(reply) ==
    /\ reply.kind = "response"
    /\ reply.status >= 200
    /\ reply.status < 300

\* getUserById whose catch block returns a placeholder user, not null.
getUserById_CatchReturnsStub(reply) ==
    IF Resolves(reply)
    THEN OrElse(Prop(reply.data, "data"), Null)
    ELSE Obj([id |-> <<>>, name |-> "", email |-> ""])

\* The value getUserById returns once the call has ended with reply.
getUserById(reply) ==
    IF Resolves(reply)
    THEN OrElse(Prop(reply.data, "data"), Null)
    ELSE Null

------------------------------------------------------------------------------
(* apps/order-service: the controller *)

\* The request bodies a client sends to POST /orders.
D_Laptop == <<"L", "a", "p", "t", "o", "p">>
Bodies ==
    { [userId |-> Str(<<"1">>), product |-> Str(D_Laptop),
       quantity |-> Num(1), total |-> Num(999)],
      [userId |-> Str(<<"9", "9", "9">>), product |-> Str(D_Laptop),
       quantity |-> Num(1), total |-> Num(999)],
      [userId |-> Str(<<>>), product |-> Str(D_Laptop),
       quantity |-> Num(1), total |-> Num(999)],
      [product |-> Str(D_Laptop), quantity |-> Num(1), total |-> Num(999)],
      [userId |-> Str(<<"2">>), quantity |-> Num(0), total |-> Num(-5)] }

\* NewOrder with `total: quantity` written for `total`.
NewOrder_TotalFromQuantity(body, id) ==
    [id |-> Str(id),
     userId |-> Get(body, "userId"),
     product |-> Get(body, "product"),
     quantity |-> Get(body, "quantity"),
     total |-> Get(body, "quantity")]

\* NewOrder with `quantity: quantity || 1` written for `quantity`.
NewOrder_DefaultsQuantity(body, id) ==
    [id |-> Str(id),
     userId |-> Get(body, "userId"),
     product |-> Get(body, "product"),
     quantity |-> OrElse(Get(body, "quantity"), Num(1)),
     total |-> Get(body, "total")]

\* const { userId, product, quantity, total } = req.body; { id, userId, ... }
NewOrder(body, id) ==
    [id |-> Str(id),
     userId |-> Get(body, "userId"),
     product |-> Get(body, "product"),
     quantity |-> Get(body, "quantity"),
     total |-> Get(body, "total")]

NoResponse == [op |-> "none"]

Init ==
    /\ users = SeedUsers
    /\ orders = <<>>
    /\ pending = <<>>
    /\ lastRes = NoResponse
    /\ plainPending = <<>>
    /\ plainRes = NoResponse

\* s without its i-th element.
Remove(s, i) == SubSeq(s, 1, i - 1) \o SubSeq(s, i + 1, Len(s))

\* s back to front, as Array.prototype.reverse leaves an array.
Reverse(s) == [i \in 1..Len(s) |-> s[Len(s) + 1 - i]]

\* getOrders sending orders.slice(0, 1), a first page of the list.
getOrders_FirstPage ==
    /\ lastRes' = [op |-> "getOrders", waiting |-> Len(pending)] @@
                  Response(200, Obj([success |-> TRUE,
                                     data |-> Arr(SubSeq(orders, 1,
                                                         Min(1, Len(orders))))]))
    /\ UNCHANGED <<users, orders, pending, plainVars>>

\* getOrders sending orders.reverse(), which reverses the array in place.
getOrders_Reverses ==
    /\ orders' = Reverse(orders)
    /\ lastRes' = [op |-> "getOrders", waiting |-> Len(pending)] @@
                  Response(200, Obj([success |-> TRUE, data |-> Arr(orders')]))
    /\ UNCHANGED <<users, pending, plainVars>>

\* getOrders that first waits for the lookups in flight to end.
getOrders_WaitsForLookups ==
    /\ pending = <<>>
    /\ lastRes' = [op |-> "getOrders", waiting |-> Len(pending)] @@
                  Response(200, Obj([success |-> TRUE, data |-> Arr(orders)]))
    /\ UNCHANGED <<users, orders, pending, plainVars>>

\* GET /orders
getOrders ==
    /\ lastRes' = [op |-> "getOrders", waiting |-> Len(pending)] @@
                  Response(200, Obj([success |-> TRUE, data |-> Arr(orders)]))
    /\ UNCHANGED <<users, orders, pending, plainVars>>

\* POST /orders up to the await: the body is read and the lookup is sent
\* (lookups counts the GETs sent for the request).
createOrder(body) ==
    /\ Len(pending) < MaxReq
    /\ Len(orders) + Len(pending) < MaxOrders
    /\ pending' = Append(pending,
                         [pc |-> "awaiting", body |-> body,
                          path |-> LookupPath(Get(body, "userId")),
                          lookups |-> 1])
    /\ UNCHANGED <<users, orders, lastRes, plainVars>>

\* The lookup of the i-th pending request reaches the Directory, which
\* answers it.
DirectoryHandles(i) ==
    /\ pending[i].pc = "awaiting"
    /\ pending' = [pending EXCEPT
                     ![i] = [pc |-> "answered", body |-> pending[i].body,
                             path |-> pending[i].path,
                             lookups |-> pending[i].lookups,
                             reply |-> Directory(users, pending[i].path)]]
    /\ UNCHANGED <<users, orders, lastRes, plainVars>>

\* createOrderResume with orders.unshift(order) written for orders.push(order).
createOrderResume_Unshifts(i, reply, d) ==
    /\ LET body == pending[i].body
           user == getUserById(reply)
           order == NewOrder(body, generateId(d))
           sent == [op |-> "createOrder", req |-> body,
                    lookup |-> reply, user |-> user,
                    lookups |-> pending[i].lookups, older |-> i - 1,
                    thrown |-> "none"]
       IN  IF ~Truthy(user)
           THEN /\ lastRes' = sent @@ [sends |-> 1] @@
                      Response(404, Obj([success |-> FALSE,
                                         error |-> "User not found"]))
                /\ orders' = orders
           ELSE /\ orders' = <<order>> \o orders
                /\ lastRes' = sent @@ [sends |-> 1] @@
                      Response(201, Obj([success |-> TRUE, data |-> Obj(order)]))
    /\ pending' = Remove(pending, i)
    /\ UNCHANGED <<users, plainVars>>

\* createOrderResume with the body's fields kept in variables of the module
\* rather than of the call, so that after the await they are those of the
\* request that arrived last.
createOrderResume_SharedBody(i, reply, d) ==
    /\ LET body == pending[Len(pending)].body
           user == getUserById(reply)
           order == NewOrder(body, generateId(d))
           sent == [op |-> "createOrder", req |-> body,
                    lookup |-> reply, user |-> user,
                    lookups |-> pending[i].lookups, older |-> i - 1,
                    thrown |-> "none"]
       IN  IF ~Truthy(user)
           THEN /\ lastRes' = sent @@ [sends |-> 1] @@
                      Response(404, Obj([success |-> FALSE,
                                         error |-> "User not found"]))
                /\ orders' = orders
           ELSE /\ orders' = Append(orders, order)
                /\ lastRes' = sent @@ [sends |-> 1] @@
                      Response(201, Obj([success |-> TRUE, data |-> Obj(order)]))
    /\ pending' = Remove(pending, i)
    /\ UNCHANGED <<users, plainVars>>

\* createOrderResume without the `return` before res.status(404): the 404
\* is sent and the handler goes on to build and push the order (the 201 it
\* then tries to send is refused, the headers having been sent).
createOrderResume_NoReturn(i, reply, d) ==
    /\ LET body == pending[i].body
           user == getUserById(reply)
           order == NewOrder(body, generateId(d))
           sent == [op |-> "createOrder", req |-> body,
                    lookup |-> reply, user |-> user,
                    lookups |-> pending[i].lookups, older |-> i - 1,
                    thrown |-> "none"]
       IN  IF ~Truthy(user)
           THEN /\ lastRes' = sent @@ [sends |-> 1] @@
                      Response(404, Obj([success |-> FALSE,
                                         error |-> "User not found"]))
                /\ orders' = Append(orders, order)
           ELSE /\ orders' = Append(orders, order)
                /\ lastRes' = sent @@ [sends |-> 1] @@
                      Response(201, Obj([success |-> TRUE, data |-> Obj(order)]))
    /\ pending' = Remove(pending, i)
    /\ UNCHANGED <<users, plainVars>>

\* createOrderResume with `if (!user || !product)` written for `if (!user)`.
createOrderResume_RequiresProduct(i, reply, d) ==
    /\ LET body == pending[i].body
           user == getUserById(reply)
           order == NewOrder(body, generateId(d))
           sent == [op |-> "createOrder", req |-> body,
                    lookup |-> reply, user |-> user,
                    lookups |-> pending[i].lookups, older |-> i - 1,
                    thrown |-> "none"]
       IN  IF ~Truthy(user) \/ ~Truthy(Get(body, "product"))
           THEN /\ lastRes' = sent @@ [sends |-> 1] @@
                      Response(404, Obj([success |-> FALSE,
                                         error |-> "User not found"]))
                /\ orders' = orders
           ELSE /\ orders' = Append(orders, order)
                /\ lastRes' = sent @@ [sends |-> 1] @@
                      Response(201, Obj([success |-> TRUE, data |-> Obj(order)]))
    /\ pending' = Remove(pending, i)
    /\ UNCHANGED <<users, plainVars>>

\* POST /orders from the await on, the lookup call of the i-th pending
\* request having ended with reply: the lookup client's result is tested,
\* and the order is built (its id from the draw d), appended and returned.
\* The answer is kept with what led to it: the request, the lookup's end,
\* the client's result, the GETs sent, how many older requests were still
\* awaiting their lookup, the statement that threw, if one did, and the
\* number of responses the handler sent for the request.
createOrderResume(i, reply, d) ==
    /\ LET body == pending[i].body
           user == getUserById(reply)
           order == NewOrder(body, generateId(d))
           sent == [op |-> "createOrder", req |-> body,
                    lookup |-> reply, user |-> user,
                    lookups |-> pending[i].lookups, older |-> i - 1,
                    thrown |-> "none"]
       IN  IF ~Truthy(user)
           THEN /\ lastRes' = sent @@ [sends |-> 1] @@
                      Response(404, Obj([success |-> FALSE,
                                         error |-> "User not found"]))
                /\ orders' = orders
           ELSE /\ orders' = Append(orders, order)
                /\ lastRes' = sent @@ [sends |-> 1] @@
                      Response(201, Obj([success |-> TRUE, data |-> Obj(order)]))
    /\ pending' = Remove(pending, i)
    /\ UNCHANGED <<users, plainVars>>

\* The catch block passing the error on to errorHandler, which answers with
\* the error's own message.
CatchResponse_FormatsError ==
    Response(500, Obj([success |-> FALSE, error |-> "Internal Server Error"]))

\* catch (error) { res.status(500).json({ success: false, error: 'Failed
\* to create order' }) }
CatchResponse ==
    Response(500, Obj([success |-> FALSE, error |-> "Failed to create order"]))

\* The statements of the try block after the null check that may throw:
\* the call of generateId in the order's construction, before orders.push,
\* and the sending of the 201 response, after it.
ThrowSites == {"generateId", "json201"}

\* POST /orders from the await on, the lookup having returned a user, with
\* an exception thrown at the site `at`: the catch block answers 500. An
\* exception in generateId leaves orders as it was; one thrown while the 201
\* response is sent comes after orders.push(order), and the catch block does
\* not take the order out again.
createOrderThrows(i, d, at) ==
    /\ pending[i].pc = "answered"
    /\ Truthy(getUserById(pending[i].reply))
    /\ LET body == pending[i].body
           reply == pending[i].reply
           user == getUserById(reply)
           order == NewOrder(body, generateId(d))
           sent == [op |-> "createOrder", req |-> body,
                    lookup |-> reply, user |-> user,
                    lookups |-> pending[i].lookups, older |-> i - 1,
                    thrown |-> at]
       IN  /\ orders' = IF at = "generateId" THEN orders
                        ELSE Append(orders, order)
           /\ lastRes' = sent @@ [sends |-> 1] @@ CatchResponse
    /\ pending' = Remove(pending, i)
    /\ UNCHANGED <<users, plainVars>>

\* The Directory's answer to the i-th pending lookup arrives.
LookupReturns(i, d) ==
    /\ pending[i].pc = "answered"
    /\ createOrderResume(i, pending[i].reply, d)

\* LookupFails for a client without a timeout, whose call ends only once
\* the Directory has answered.
LookupFails_NeedsAnswer(i, f, d) ==
    /\ pending[i].pc = "answered"
    /\ createOrderResume(i, f, d)

\* LookupFails sending the GET a second time before it gives up.
LookupFails_RetriesOnce(i, f, d) ==
    IF pending[i].lookups < 2
    THEN /\ pending' = [pending EXCEPT
                          ![i] = [pc |-> "awaiting", body |-> pending[i].body,
                                  path |-> pending[i].path, lookups |-> 2]]
         /\ UNCHANGED <<users, orders, lastRes, plainVars>>
    ELSE createOrderResume(i, f, d)

\* The i-th pending lookup ends in the failure f, whether or not the
\* Directory has handled it.
LookupFails(i, f, d) ==
    createOrderResume(i, f, d)

\* The paths outside clients ask the Directory for.
DirectoryPaths ==
    { UsersMount,
      UsersMount \o <<"/">>,
      UsersMount \o <<"/", "1">>,
      UsersMount \o <<"/", "2", "/">>,
      UsersMount \o <<"/", "9", "9", "9">>,
      UsersMount \o <<"/", "1", "/", "x">> }

\* DirectoryGet whose handlers take the answer off the array with
\* users.shift() instead of reading it.
DirectoryGet_ShiftsUsers(path) ==
    /\ lastRes' = [op |-> Route(path).handler, req |-> Route(path)] @@
                  Directory(users, path)
    /\ users' = IF users = <<>> THEN users ELSE Tail(users)
    /\ UNCHANGED <<orders, pending, plainVars>>

\* GET path on the Directory, from an outside client.
DirectoryGet(path) ==
    /\ lastRes' = [op |-> Route(path).handler, req |-> Route(path)] @@
                  Directory(users, path)
    /\ UNCHANGED <<users, orders, pending, plainVars>>

Next ==
    \/ getOrders
    \/ \E body \in Bodies : createOrder(body)
    \/ \E i \in 1..Len(pending) : DirectoryHandles(i)
    \/ \E i \in 1..Len(pending), d \in RandomDraws : LookupReturns(i, d)
    \/ \E i \in 1..Len(pending), f \in Failures, d \in RandomDraws :
          LookupFails(i, f, d)
    \/ \E path \in DirectoryPaths : DirectoryGet(path)

Spec == Init /\ [][Next]_allVars

\* The two services with exceptions thrown inside createOrder's try block.
NextFaults ==
    \/ Next
    \/ \E i \in 1..Len(pending), d \in RandomDraws, at \in ThrowSites :
           createOrderThrows(i, d, at)

SpecFaults == Init /\ [][NextFaults]_allVars

\* The lookup call of the i-th pending request ends, with the Directory's
\* answer or with a failure, and createOrder runs on to its answer.
LookupEnds(i) ==
    /\ i <= Len(pending)
    /\ \/ \E d \in RandomDraws : LookupReturns(i, d)
       \/ \E f \in Failures, d \in RandomDraws : LookupFails(i, f, d)
       \/ \E d \in RandomDraws, at \in ThrowSites : createOrderThrows(i, d, at)

\* axios.create({ timeout }): a call that has not ended after 3000 ms is
\* ended by the client, so no lookup call stays open forever.
Fairness == \A i \in 1..MaxReq : WF_allVars(LookupEnds(i))

\* The request bodies of a known and of an unknown user.
LiveBodies ==
    {body \in Bodies :
        Get(body, "userId") \in {Str(<<"1">>), Str(<<"9", "9", "9">>)}}

\* createOrder alone, from arrival to answer: the steps that bear on whether
\* a request completes (getOrders and the Directory's own clients leave the
\* pending requests as they are).
NextLive ==
    \/ \E body \in LiveBodies : createOrder(body)
    \/ \E i \in 1..Len(pending) : DirectoryHandles(i)
    \/ \E i \in 1..Len(pending) : LookupEnds(i)

SpecLive == Init /\ [][NextLive]_allVars /\ Fairness

\* Request bodies of a known and of an unknown user, each with all of
\* product, quantity and total, with other values and no product, and with
\* none of the three.
DecisionBodies ==
    {[userId |-> u] @@ rest :
        u \in {Str(<<"1">>), Str(<<"9", "9", "9">>)},
        rest \in {[product |-> Str(D_Laptop), quantity |-> Num(1),
                   total |-> Num(999)],
                  [quantity |-> Num(0), total |-> Num(-5)]}}
    \union {[userId |-> Str(<<"1">>)], [userId |-> Str(<<"9", "9", "9">>)]}

\* createOrder alone, for requests that differ in the fields other than
\* userId.
NextDecision ==
    \/ \E body \in DecisionBodies : createOrder(body)
    \/ \E i \in 1..Len(pending) : DirectoryHandles(i)
    \/ \E i \in 1..Len(pending), d \in RandomDraws : LookupReturns(i, d)
    \/ \E i \in 1..Len(pending), f \in Failures, d \in RandomDraws :
           LookupFails(i, f, d)

SpecDecision == Init /\ [][NextDecision]_allVars

------------------------------------------------------------------------------
(* apps/order-service: the error middleware, and formatError *)

\* The texts an error carries as its message, or that are thrown as such.
Chars == {"e", "r"}
Messages == UNION {[1..k -> Chars] : k \in 0..MaxLen}

\* An instance of Error or of one of its subclasses.
ErrorOf(name, message) == [t |-> "error", name |-> name, v |-> message]

\* What can be passed to errorHandler: whatever a handler threw or gave to
\* next, an Error or any other value.
Thrown ==
    {ErrorOf(n, m) : n \in {"Error", "TypeError", "SyntaxError"},
                     m \in Messages}
    \union {Str(m) : m \in Messages}
    \union {Num(n) : n \in (0 - MaxNum)..MaxNum}
    \union {Null, Undefined, Obj([status |-> 400])}

Digit(d) == <<"0", "1", "2", "3", "4", "5", "6", "7", "8", "9">>[d + 1]

\* The decimal digits of a natural number.
RECURSIVE ToDigits(_)
ToDigits(n) ==
    IF n < 10 THEN <<Digit(n)>>
    ELSE ToDigits(n \div 10) \o <<Digit(n % 10)>>

\* String(v): the text of v. An Error gives "name: message", or the name
\* alone when the message is empty; a plain object gives "[object Object]".
String(v) ==
    CASE v.t = "string" -> v.v
      [] v.t = "number" ->
            IF v.v < 0 THEN <<"-">> \o ToDigits(0 - v.v) ELSE ToDigits(v.v)
      [] v.t = "null" -> <<"n", "u", "l", "l">>
      [] v.t = "undefined" ->
            <<"u", "n", "d", "e", "f", "i", "n", "e", "d">>
      [] v.t = "error" ->
            LET name == CASE v.name = "Error" -> <<"E", "r", "r", "o", "r">>
                          [] v.name = "TypeError" ->
                                <<"T", "y", "p", "e", "E", "r", "r", "o", "r">>
                          [] OTHER ->
                                <<"S", "y", "n", "t", "a", "x",
                                  "E", "r", "r", "o", "r">>
            IN  IF v.v = <<>> THEN name ELSE name \o <<":", " ">> \o v.v
      [] OTHER ->
            <<"[", "o", "b", "j", "e", "c", "t", " ",
              "O", "b", "j", "e", "c", "t", "]">>

\* formatError without the instanceof test.
formatError_AlwaysString(error) == String(error)

\* error instanceof Error ? error.message : String(error)
formatError(error) ==
    IF error.t = "error" THEN error.v ELSE String(error)

\* errorHandler(err, req, res, next): the error is logged and answered with
\* 500 and the envelope; next is not called and nothing is thrown.
errorHandler(err) ==
    /\ lastRes' = [op |-> "errorHandler", err |-> err,
                   nextCalled |-> FALSE, rethrown |-> FALSE] @@
                  Response(500, Obj([success |-> FALSE,
                                     error |-> formatError(err)]))
    /\ UNCHANGED <<users, orders, pending, plainVars>>

NextErrors == \E err \in Thrown : errorHandler(err)

SpecErrors == Init /\ [][NextErrors]_allVars

------------------------------------------------------------------------------
(* The plain services: order-service and user-service *)

\* The order ids a client asks GET /api/orders/:orderId for.
OrderIds == {<<"1">>, <<"7">>, <<"4", "2">>}

\* `${env.USER_SERVICE_URL}/api/users/${id}`, the path after the base URL.
PlainLookupPath(id) ==
    <<"/", "a", "p", "i", "/", "u", "s", "e", "r", "s", "/">> \o id

\* The user the plain Directory holds under id "1": a User of the lookup
\* client's interface (id, name, role).
PlainUser ==
    [id |-> <<"1">>, name |-> "John Doe", role |-> "admin"]

\* The plain Directory's answer to GET /api/users/1: res.json(user).
PlainDirectory == Response(200, Obj(PlainUser))

\* How the plain lookup call can end.
PlainReplies == {PlainDirectory} \union Failures

\* The plain lookup client: it returns response.data and has no catch, so
\* a rejected get makes it throw.
PlainLookup(reply) ==
    IF Resolves(reply)
    THEN [threw |-> FALSE, value |-> reply.data]
    ELSE [threw |-> TRUE, value |-> Undefined]

\* What becomes of a request whose async handler rejected. getOrder has no
\* try/catch and the app mounts no error middleware: Express 4 does not
\* observe the handler's promise and the request stays unanswered; a router
\* that does observe it hands the error to the framework's final handler,
\* which answers 500 with an HTML page.
Rejections == {"unanswered", "finalhandler"}
Unanswered == [kind |-> "none", status |-> 0, data |-> Undefined]
FinalHandler == Response(500, Str("<pre>Internal Server Error</pre>"))

\* getOrder with getUserById(req.params.orderId) written for
\* getUserById("1").
getOrder_LooksUpOrderId(orderId) ==
    /\ Len(plainPending) < MaxReq
    /\ plainPending' = Append(plainPending,
                              [orderId |-> orderId,
                               path |-> PlainLookupPath(orderId)])
    /\ UNCHANGED <<plainRes, vars>>

\* GET /api/orders/:orderId up to the await: the lookup of user "1" is sent.
getOrder(orderId) ==
    /\ Len(plainPending) < MaxReq
    /\ plainPending' = Append(plainPending,
                              [orderId |-> orderId,
                               path |-> PlainLookupPath(<<"1">>)])
    /\ UNCHANGED <<plainRes, vars>>

\* GET /api/orders/:orderId from the await on, the lookup of the i-th
\* pending request having ended with reply: the user is put in the answer
\* with the order id and the product "Laptop"; if the lookup threw, the
\* handler's promise rejects and rej is what becomes of the request.
getOrderResume(i, reply, rej) ==
    /\ LET looked == PlainLookup(reply)
           sent == [op |-> "getOrder", orderId |-> plainPending[i].orderId,
                    lookup |-> reply]
       IN  plainRes' =
             IF ~looked.threw
             THEN sent @@ [answered |-> TRUE] @@
                  Response(200, Obj([orderId |-> Str(plainPending[i].orderId),
                                     product |-> Str(D_Laptop),
                                     user |-> looked.value]))
             ELSE IF rej = "unanswered"
                  THEN sent @@ [answered |-> FALSE] @@ Unanswered
                  ELSE sent @@ [answered |-> TRUE] @@ FinalHandler
    /\ plainPending' = Remove(plainPending, i)
    /\ UNCHANGED vars

NextPlain ==
    \/ \E orderId \in OrderIds : getOrder(orderId)
    \/ \E i \in 1..Len(plainPending), reply \in PlainReplies,
          rej \in Rejections :
           getOrderResume(i, reply, rej)

SpecPlain == Init /\ [][NextPlain]_allVars

------------------------------------------------------------------------------
(* What the claims speak of *)

\* v is the id of a user the Directory holds.
IsUserId(v) ==
    /\ v.t = "string"
    /\ \E k \in 1..Len(users) : users[k].id = v.v

\* The lookup ended without the Directory's own answer: a network error, a
\* timeout or a server-error response.
IsUnreachable(reply) ==
    \/ reply.kind \in {"network", "timeout"}
    \/ reply.kind = "response" /\ reply.status >= 500

\* The step answers a createOrder request; lastRes' is the answer.
CreateOrderAnswered == Len(pending') < Len(pending)

NotFoundBody == Obj([success |-> FALSE, error |-> "User not found"])

\* C1: every order in the order list has a userId that is the id of a user
\* of the Directory, whatever userId the clients sent (the empty string and
\* an absent userId included).
C1_OrderUserExists ==
    \A k \in 1..Len(orders) : IsUserId(orders[k].userId)

\* C2: a createOrder whose userId is not the id of any user is answered
\* 404 {success:false, error:"User not found"} and leaves the order list
\* as it was.
C2_UnknownUserRejected ==
    [][(CreateOrderAnswered /\ ~IsUserId(Get(lastRes'.req, "userId")))
         => /\ lastRes'.status = 404
            /\ lastRes'.data = NotFoundBody
            /\ orders' = orders]_vars

\* C3: when the lookup of a createOrder fails because the Directory is
\* unreachable, no order is appended: the order list after the request is
\* the list before it.
C3_UnreachableAppendsNothing ==
    [][(CreateOrderAnswered /\ IsUnreachable(lastRes'.lookup))
         => orders' = orders]_vars

C3_Witness ==
    /\ lastRes.op = "createOrder"
    /\ IsUnreachable(lastRes.lookup)
    /\ IsUserId(Get(lastRes.req, "userId"))
    /\ Len(orders) = 1

\* C4: when the lookup of a createOrder fails because the Directory is
\* unreachable, the answer is a 5xx that differs in status and message
\* from the 404 "User not found" of an unknown user.
C4_UnreachableIs5xx ==
    (lastRes.op = "createOrder" /\ IsUnreachable(lastRes.lookup))
        => /\ lastRes.status \in 500..599
           /\ lastRes.data # NotFoundBody

\* C5: a createOrder whose userId is the id of a user, the Directory being
\* reachable, is answered 201 {success:true, data:order} where the order's
\* userId, product, quantity and total are the request's, and exactly that
\* order becomes the new last element of the order list.
C5_CreatedOrderAppended ==
    [][(/\ CreateOrderAnswered
        /\ IsUserId(Get(lastRes'.req, "userId"))
        /\ ~IsUnreachable(lastRes'.lookup))
         => /\ lastRes'.status = 201
            /\ DOMAIN lastRes'.data.v = {"success", "data"}
            /\ lastRes'.data.v.success = TRUE
            /\ LET order == lastRes'.data.v.data.v
                   req == lastRes'.req
               IN  /\ order.userId = Get(req, "userId")
                   /\ order.product = Get(req, "product")
                   /\ order.quantity = Get(req, "quantity")
                   /\ order.total = Get(req, "total")
                   /\ orders' = Append(orders, order)]_vars

C5_Witness ==
    /\ lastRes.op = "createOrder"
    /\ lastRes.status = 201
    /\ IsUserId(Get(lastRes.req, "userId"))
    /\ ~IsUnreachable(lastRes.lookup)
    /\ Len(orders) = 2
    /\ orders[2] = lastRes.data.v.data.v

\* C6: the orders in the order list have pairwise distinct ids.
C6_OrderIdsDistinct ==
    \A j, k \in 1..Len(orders) : j # k => orders[j].id # orders[k].id

\* C7: GET /users/:id answers 200 {success:true, data:user} with the seed
\* record of that id when id is a seed user's, and 404 {success:false,
\* error:"User not found"} with no data field for every other id.
C7_LookupEndpoint ==
    lastRes.op = "getUserById"
        => IF \E k \in 1..Len(SeedUsers) : SeedUsers[k].id = lastRes.req.id
           THEN /\ lastRes.status = 200
                /\ \E k \in 1..Len(SeedUsers) :
                      /\ SeedUsers[k].id = lastRes.req.id
                      /\ lastRes.data =
                            Obj([success |-> TRUE, data |-> Obj(SeedUsers[k])])
           ELSE /\ lastRes.status = 404
                /\ lastRes.data = NotFoundBody

C7_Witness ==
    /\ lastRes.op = "getUserById"
    /\ lastRes.req.id = <<"9", "9", "9">>
    /\ lastRes.status = 404

\* C8: the lookup client gives one of three results that the caller can
\* tell apart: the user when the Directory answers success with a user
\* payload, not-found when it answers 404 or success with an empty payload,
\* unreachable when the call fails; unreachable is never the value that
\* not-found is.
C8_ThreeResults ==
    lastRes.op = "createOrder"
        => LET reply == lastRes.lookup
               notFound == getUserById(Response(404, NotFoundBody))
           IN  IF IsUnreachable(reply)
               THEN lastRes.user # notFound
               ELSE IF reply.status = 200 /\ Truthy(Prop(reply.data, "data"))
               THEN lastRes.user = Prop(reply.data, "data")
               ELSE lastRes.user = notFound

\* C9: requests to GET /users/:id and GET /users and the lookup calls, in
\* any number and interleaved with any other requests, leave the user set
\* and the order list as they were; the user set is the seed set in every
\* reachable state.
C9_QueriesChangeNothing ==
    /\ [](users = SeedUsers)
    /\ [][/\ users' = users
          /\ ~CreateOrderAnswered => orders' = orders]_vars

C9_Witness ==
    /\ lastRes.op = "getUserById"
    /\ Len(orders) = 1
    /\ Len(pending) = 1
    /\ pending[1].pc = "answered"

\* C10: GET /orders answers 200 {success:true, data:L} where L is the whole
\* order list in insertion order as it is when the request is handled, and
\* leaves the list as it was; until a createOrder next succeeds, the list
\* it returned is still the order list, so a second GET /orders returns the
\* same.
C10_GetOrdersReturnsList ==
    /\ [](lastRes.op = "getOrders"
            => /\ lastRes.status = 200
               /\ lastRes.data = Obj([success |-> TRUE, data |-> Arr(orders)]))
    /\ [][(lastRes'.op = "getOrders" /\ pending' = pending)
            => orders' = orders]_vars

C10_Witness ==
    /\ lastRes.op = "getOrders"
    /\ Len(orders) = 2
    /\ orders[1] # orders[2]
    /\ Len(lastRes.data.v.data.v) = 2

\* s is an initial part of t.
IsPrefix(s, t) == Len(s) <= Len(t) /\ SubSeq(t, 1, Len(s)) = s

\* The lookup ended with the Directory's success answer carrying a user.
IsFound(reply) ==
    /\ reply.kind = "response"
    /\ reply.status = 200
    /\ Prop(reply.data, "data").t = "object"

\* C11: the order list is append-only: in every step the list before is an
\* initial part of the list after, so an order once appended is never
\* removed, moved or changed.
C11_AppendOnly == [][IsPrefix(orders, orders')]_vars

C11_Witness ==
    /\ Len(orders) = 2
    /\ orders[1] # orders[2]

\* C13: each createOrder sends exactly one lookup: a lookup that failed or
\* timed out is not sent again, and every createOrder starts by awaiting a
\* lookup of its own, whatever earlier lookups returned.
C13_OneLookupPerRequest ==
    /\ [](\A i \in 1..Len(pending) : pending[i].lookups = 1)
    /\ [](lastRes.op = "createOrder" => lastRes.lookups = 1)
    /\ [][Len(pending') > Len(pending)
            => /\ pending'[Len(pending')].pc = "awaiting"
               /\ pending'[Len(pending')].lookups = 1
               /\ SubSeq(pending', 1, Len(pending)) = pending]_vars

C13_Witness ==
    /\ lastRes.op = "createOrder"
    /\ lastRes.lookup = TimeoutError
    /\ lastRes.lookups = 1
    /\ Len(pending) = 1
    /\ pending[1].pc = "awaiting"
    /\ pending[1].body = lastRes.req

\* C15: whatever other createOrder requests are in flight, the answering of
\* a request whose lookup returned a user appends exactly one order, with
\* that request's fields, after the orders already in the list, and leaves
\* every other request in flight as it was: none is lost or duplicated.
C15_ConcurrentAppends ==
    [][\A i \in 1..Len(pending) :
         (/\ Len(pending') < Len(pending)
          /\ lastRes'.older = i - 1
          /\ IsFound(lastRes'.lookup))
           => /\ pending' = Remove(pending, i)
              /\ lastRes'.status = 201
              /\ Len(orders') = Len(orders) + 1
              /\ SubSeq(orders', 1, Len(orders)) = orders
              /\ LET order == orders'[Len(orders')]
                     body == pending[i].body
                 IN  /\ order.userId = Get(body, "userId")
                     /\ order.product = Get(body, "product")
                     /\ order.quantity = Get(body, "quantity")
                     /\ order.total = Get(body, "total")]_vars

C15_Witness ==
    /\ lastRes.op = "createOrder"
    /\ lastRes.status = 201
    /\ lastRes.older = 1
    /\ IsFound(lastRes.lookup)
    /\ Len(orders) = 1
    /\ Len(pending) = 1
    /\ pending[1].pc = "answered"
    /\ IsFound(pending[1].reply)

\* C16: while a createOrder awaits its lookup the Ledger goes on handling
\* requests: GET /orders can be answered, another createOrder can be
\* accepted, and a request whose lookup has been answered can be answered
\* ahead of it; a GET /orders answered meanwhile returns the order list as
\* it is, without an order of the requests still waiting, and leaves them
\* waiting.
C16_NotBlockedByLookup ==
    /\ [](Len(pending) > 0
            => /\ ENABLED getOrders
               /\ (Len(pending) < MaxReq /\ Len(orders) + Len(pending) < MaxOrders)
                     => ENABLED (\E body \in Bodies : createOrder(body))
               /\ \A j \in 1..Len(pending) :
                     pending[j].pc = "answered"
                       => ENABLED (\E d \in RandomDraws : LookupReturns(j, d)))
    /\ [](lastRes.op = "getOrders" => lastRes.data.v.data = Arr(orders))
    /\ [][(lastRes'.op = "getOrders" /\ lastRes' # lastRes /\ Len(pending) > 0)
            => /\ lastRes'.waiting = Len(pending)
               /\ pending' = pending
               /\ orders' = orders]_vars

C16_Witness ==
    /\ lastRes.op = "getOrders"
    /\ lastRes.waiting = 1
    /\ Len(pending) = 1
    /\ pending[1].pc = "awaiting"
    /\ Len(orders) = 1
    /\ lastRes.data.v.data = Arr(orders)

\* v is a number that is an integer greater than 0 (the model's numbers
\* are integers).
IsPositiveInteger(v) == v.t = "number" /\ v.v > 0
\* v is a number greater than or equal to 0.
IsNonNegative(v) == v.t = "number" /\ v.v >= 0

\* C17 as claimed: every order in the order list has an integer quantity
\* greater than 0 and a total greater than or equal to 0.
C17_QuantityTotalValid ==
    \A k \in 1..Len(orders) :
        /\ IsPositiveInteger(orders[k].quantity)
        /\ IsNonNegative(orders[k].total)

\* C17 as amended: an order enters the list with the quantity and the total
\* of its request body, whatever they are (an absent one stays absent), so
\* its quantity is an integer greater than 0 and its total is at least 0
\* exactly when the request's were.
C17_QuantityTotalAsSent ==
    [][(CreateOrderAnswered /\ orders' # orders)
         => LET order == orders'[Len(orders')]
                req == lastRes'.req
            IN  /\ order.quantity = Get(req, "quantity")
                /\ order.total = Get(req, "total")
                /\ IsPositiveInteger(order.quantity)
                      <=> IsPositiveInteger(Get(req, "quantity"))
                /\ IsNonNegative(order.total)
                      <=> IsNonNegative(Get(req, "total"))]_vars

C17_Witness ==
    \E k \in 1..Len(orders) :
        /\ orders[k].quantity = Num(0)
        /\ orders[k].total = Num(-5)

\* C19: the lookup client returns a non-null value only when the Directory
\* holds a user whose id is the userId asked for: a truthy result is that
\* one user record, never another payload such as the list of all users.
C19_TruthyResultIsThatUser ==
    (lastRes.op = "createOrder" /\ Truthy(lastRes.user))
        => /\ lastRes.user.t = "object"
           /\ Str(lastRes.user.v.id) = Get(lastRes.req, "userId")
           /\ \E k \in 1..Len(users) : users[k] = lastRes.user.v

C20_OrdersMatch201s ==
    [][CreateOrderAnswered
         => \/ lastRes'.status = 201 /\ Len(orders') = Len(orders) + 1
            \/ lastRes'.status \in {404, 500} /\ orders' = orders]_vars

\* v is the error envelope {success: false, error: <message>}.
IsErrorEnvelope(v) ==
    /\ v.t = "object"
    /\ DOMAIN v.v = {"success", "error"}
    /\ v.v.success = FALSE

\* C12: in every handler of both variants a failure raised while the
\* request is handled, a failed or rejected lookup included, is answered
\* with the envelope {success: false, error: <message>}: the plain getOrder
\* and the monorepo's createOrder answer a request whose lookup failed, and
\* answer it with the envelope.
C12_FailuresAnsweredWithEnvelope ==
    /\ (plainRes.op = "getOrder" /\ ~Resolves(plainRes.lookup))
          => plainRes.answered /\ IsErrorEnvelope(plainRes.data)
    /\ (lastRes.op = "createOrder" /\ ~Resolves(lastRes.lookup))
          => IsErrorEnvelope(lastRes.data)

\* C14: every createOrder completes: time and again no request is pending
\* or the oldest pending request is answered, so that none stays pending
\* forever; its lookup has then ended with a response, a network failure or
\* the timeout, and it is answered with 201, 404 or 500.
C14_EveryCreateOrderCompletes ==
    /\ \/ []<>(pending = <<>>)
       \/ []<><<CreateOrderAnswered /\ lastRes'.older = 0>>_vars
    /\ [](lastRes.op = "createOrder"
            => /\ lastRes.status \in {201, 404, 500}
               /\ lastRes.lookup.kind \in {"response", "network", "timeout"})

C14_Witness ==
    /\ lastRes.op = "createOrder"
    /\ lastRes.lookup = TimeoutError
    /\ lastRes.older = 0
    /\ lastRes.status = 404
    /\ Len(pending) = 1
    /\ pending[1].pc = "answered"

\* C21: each createOrder receives exactly one response: the step that
\* ends a request, with the user found, with no user or with an exception
\* caught, sends one response and ends that request alone; a request still
\* pending has been sent none; and the step that answers 404 leaves the
\* order list as it was.
C21_ExactlyOneResponse ==
    [][CreateOrderAnswered
         => /\ lastRes'.op = "createOrder"
            /\ lastRes'.sends = 1
            /\ lastRes'.status \in {201, 404, 500}
            /\ Len(pending') = Len(pending) - 1
            /\ lastRes'.status = 404 => orders' = orders]_vars

C21_Witness ==
    /\ lastRes.op = "createOrder"
    /\ lastRes.sends = 1
    /\ lastRes.status = 404
    /\ lastRes.lookup.kind = "response"
    /\ lastRes.lookup.status = 404
    /\ Len(orders) = 1
    /\ Len(pending) = 1

\* C22: the append follows the lookup of the same request: the order list
\* grows only in the step that ends a request whose own lookup has returned
\* Found, and the order goes after the orders of the requests answered
\* before, whichever of them arrived first.
C22_AppendFollowsOwnLookup ==
    [][orders' # orders
         => /\ CreateOrderAnswered
            /\ pending' = Remove(pending, lastRes'.older + 1)
            /\ lastRes'.req = pending[lastRes'.older + 1].body
            /\ IsFound(lastRes'.lookup)
            /\ Len(orders') = Len(orders) + 1
            /\ SubSeq(orders', 1, Len(orders)) = orders
            /\ orders'[Len(orders')].userId = Get(lastRes'.req, "userId")]_vars

\* C23: read-your-writes on the order list: the order a createOrder is
\* answered 201 for is in the list from that step on, at the place it was
\* given, after the orders created before it; and every GET /orders returns
\* the whole list as it is when handled, so that it contains every order
\* answered 201 before, the earlier ones first.
C23_ReadYourWrites ==
    /\ [][(CreateOrderAnswered /\ lastRes'.status = 201)
            => /\ Len(orders') = Len(orders) + 1
               /\ Obj(orders'[Len(orders')]) = lastRes'.data.v.data]_vars
    /\ [][\A k \in 1..Len(orders) :
             k <= Len(orders') /\ orders'[k] = orders[k]]_vars
    /\ [][(lastRes'.op = "getOrders" /\ pending' = pending)
            => /\ lastRes'.data.v.data.t = "array"
               /\ \A k \in 1..Len(orders) :
                     /\ k <= Len(lastRes'.data.v.data.v)
                     /\ lastRes'.data.v.data.v[k] = orders[k]]_vars

C23_Witness ==
    /\ lastRes.op = "getOrders"
    /\ lastRes.waiting = 0
    /\ Len(orders) = 2
    /\ orders[1].userId # orders[2].userId
    /\ lastRes.data.v.data.v[2] = orders[2]

\* C24: createOrder's decision depends on the lookup's result alone: a
\* request answered after another with the same userId and the same end of
\* the lookup gets the same status, 201 or 404, whatever product, quantity
\* and total the two carry or lack.
C24_DecisionByLookupOnly ==
    [][(/\ CreateOrderAnswered
        /\ lastRes.op = "createOrder"
        /\ Get(lastRes'.req, "userId") = Get(lastRes.req, "userId")
        /\ lastRes'.lookup = lastRes.lookup)
         => /\ lastRes'.status = lastRes.status
            /\ lastRes'.status \in {201, 404}]_vars

C24_Witness ==
    /\ lastRes.op = "createOrder"
    /\ lastRes.status = 201
    /\ DOMAIN lastRes.req = {"userId"}
    /\ Len(orders) = 2
    /\ orders[1].userId = orders[2].userId
    /\ orders[1].product = Str(D_Laptop)
    /\ orders[2].product = Undefined

\* C25: the plain getOrder, its lookup having been answered, responds 200
\* with {orderId, product, user}: orderId is the path parameter, product is
\* "Laptop" and user is what the lookup returned; the lookup is that of
\* user "1" whatever the orderId; and the handler leaves the services'
\* state as it was.
C25_PlainGetOrder ==
    /\ []((plainRes.op = "getOrder" /\ Resolves(plainRes.lookup))
            => /\ plainRes.answered
               /\ plainRes.status = 200
               /\ plainRes.data =
                     Obj([orderId |-> Str(plainRes.orderId),
                          product |-> Str(<<"L", "a", "p", "t", "o", "p">>),
                          user |-> plainRes.lookup.data]))
    /\ [](\A i \in 1..Len(plainPending) :
             plainPending[i].path =
                 <<"/", "a", "p", "i", "/", "u", "s", "e", "r", "s", "/", "1">>)
    /\ [][users' = users /\ orders' = orders]_allVars

C25_Witness ==
    /\ plainRes.op = "getOrder"
    /\ plainRes.orderId = <<"4", "2">>
    /\ plainRes.status = 200
    /\ plainRes.data.v.user = Obj(PlainUser)
    /\ Len(plainPending) = 1
    /\ plainPending[1].orderId = <<"7">>

\* C26: GET /users answers 200 {success: true, data: U}, U being the user
\* set, which is the seed set of the two users with ids "1" and "2" at
\* every call, and no two users of U have the same id.
C26_GetUsersReturnsSeed ==
    lastRes.op = "getUsers"
        => /\ lastRes.status = 200
           /\ lastRes.data.t = "object"
           /\ DOMAIN lastRes.data.v = {"success", "data"}
           /\ lastRes.data.v.success = TRUE
           /\ lastRes.data.v.data = Arr(users)
           /\ LET U == lastRes.data.v.data.v
              IN  /\ U = SeedUsers
                  /\ Len(U) = 2
                  /\ U[1].id = <<"1">>
                  /\ U[2].id = <<"2">>
                  /\ \A j, k \in 1..Len(U) : U[j].id = U[k].id => j = k

C26_Witness ==
    /\ lastRes.op = "getUsers"
    /\ lastRes.data.v.data = Arr(SeedUsers)
    /\ Len(orders) = 2
    /\ pending = <<>>

\* The number a text of decimal digits with an optional "-" stands for.
RECURSIVE ParseDigits(_)
ParseDigits(s) ==
    IF s = <<>> THEN 0
    ELSE 10 * ParseDigits(SubSeq(s, 1, Len(s) - 1))
         + (CHOOSE d \in 0..9 : Digit(d) = s[Len(s)])
ParseNumber(s) ==
    IF s # <<>> /\ s[1] = "-" THEN 0 - ParseDigits(Tail(s))
    ELSE ParseDigits(s)

\* C27: errorHandler answers the error passed to it with 500 and {success:
\* false, error: m}: m is the message of an Error instance, and for any
\* other value its text (a string itself, a number's decimal numeral,
\* "null", "undefined"); it does not call next and throws nothing.
C27_ErrorHandlerAnswers500 ==
    lastRes.op = "errorHandler"
        => /\ lastRes.status = 500
           /\ lastRes.data.t = "object"
           /\ DOMAIN lastRes.data.v = {"success", "error"}
           /\ lastRes.data.v.success = FALSE
           /\ ~lastRes.nextCalled
           /\ ~lastRes.rethrown
           /\ LET m == lastRes.data.v.error
                  err == lastRes.err
              IN  /\ err.t \in {"error", "string"} => m = err.v
                  /\ err.t = "number"
                        => /\ m # <<>>
                           /\ \A k \in 1..Len(m) :
                                 \/ k = 1 /\ m[k] = "-"
                                 \/ \E d \in 0..9 : Digit(d) = m[k]
                           /\ ParseNumber(m) = err.v
                  /\ err.t = "null" => m = <<"n", "u", "l", "l">>
                  /\ err.t = "undefined"
                        => m = <<"u", "n", "d", "e", "f", "i", "n", "e", "d">>
                  /\ err.t = "object" => m = String(err)

C27_Witness ==
    /\ lastRes.op = "errorHandler"
    /\ lastRes.err = ErrorOf("TypeError", <<"e", "r", "r">>)
    /\ lastRes.status = 500
    /\ lastRes.data.v.error = <<"e", "r", "r">>

====
